---- MODULE Spec2Model ----
(***************************************************************************)
(* Model of three pieces of poem-openapi:                                  *)
(*   - types/external/ndarray.rs : the Array2<T> JSON adapter              *)
(*   - types/external/jiff.rs    : the Timestamp adapter                   *)
(*   - param/query.rs            : the Query<T> extractor                  *)
(* Three specifications share the module: SpecArray (parse_from_json /     *)
(* to_json of Array2<T>), SpecQuery (Query::from_request) and SpecRegistry *)
(* (the register passes).                                                  *)
(***************************************************************************)
EXTENDS Integers, Sequences, FiniteSets, TLC

VARIABLES
    \* ---- Array2<T> JSON adapter ----
    T,          \* the element type the adapter is instantiated with
    input,      \* Option<Value> handed to parse_from_json
    apc,        \* "start" -> "parsed" -> "serialized"
    ares,       \* the ParseResult<Array2<T>> (with the log of element parses)
    ajson,      \* Option<Value> returned by to_json
    \* ---- Query<T> extractor ----
    url_query,  \* the UrlQuery multimap of the request: sequence of <<key, value>>
    qpc,        \* "start" -> "done"
    opts,       \* the ExtractParamOptions of the call
    qres,       \* what from_request did (outcome, sequence handed to the parser, ...)
    \* ---- registry ----
    registry,   \* the Registry: number of schema entries stored under each name
    regCalls    \* how many times register ran, per bindable type

avars == <<T, input, apc, ares, ajson>>
qvars == <<url_query, qpc, opts, qres>>
rvars == <<registry, regCalls>>
vars == <<avars, qvars, rvars>>

\* ------------------------------------------------------------------------
\* Bounds
\* ------------------------------------------------------------------------
MaxRows == 2
MaxCols == 2
MaxOcc == 2
MaxCalls == 3
MaxDepth == 1

SeqUpTo(S, n) == UNION {[1..k -> S] : k \in 0..n}

\* ------------------------------------------------------------------------
\* serde_json::Value (the raw value model), as uniform records
\* ------------------------------------------------------------------------
JNull == [t |-> "null", s |-> "", a |-> <<>>]
JNum(s) == [t |-> "number", s |-> s, a |-> <<>>]
JStr(s) == [t |-> "string", s |-> s, a |-> <<>>]
JArr(a) == [t |-> "array", s |-> "", a |-> a]

Int1 == JNum("1")
StrZ == JStr("2024-03-10T10:00:00Z")
StrOff == JStr("2024-03-10T10:00:00+01:00")

\* Option<_> as a sequence of length 0 or 1
None == <<>>
Some(x) == <<x>>

\* ------------------------------------------------------------------------
\* ParseError / ParseResult
\* ------------------------------------------------------------------------
ErrCustom(m) == [ctor |-> "Custom", msg |-> m, found |-> JNull, inner |-> <<>>]
ErrExpectedType(v) == [ctor |-> "ExpectedType", msg |-> "", found |-> v, inner |-> <<>>]
ErrPropagate(e) == [ctor |-> "Propagated", msg |-> "", found |-> JNull, inner |-> <<e>>]

ElemOk(v) == [kind |-> "Ok", val |-> <<v>>, err |-> <<>>]
ElemErr(e) == [kind |-> "Err", val |-> <<>>, err |-> <<e>>]

\* ------------------------------------------------------------------------
\* Element types the adapter is instantiated with
\* ------------------------------------------------------------------------
ElemTypes == {"Timestamp", "f64"}

\* jiff: the instant denoted by an RFC 3339 string (its canonical UTC form)
ParseTimestamp(s) ==
    CASE s = "2024-03-10T10:00:00Z" -> Some("2024-03-10T10:00:00Z")
      [] s = "2024-03-10T10:00:00+01:00" -> Some("2024-03-10T09:00:00Z")
      [] s = "2024-03-10T09:00:00Z" -> Some("2024-03-10T09:00:00Z")
      [] OTHER -> None

Timestamp_parse_from_json(value) ==
    LET v == IF value = None THEN JNull ELSE value[1] IN
    IF v.t = "string"
    THEN IF ParseTimestamp(v.s) # None
         THEN ElemOk([ty |-> "Timestamp", v |-> ParseTimestamp(v.s)[1]])
         ELSE ElemErr(ErrCustom("invalid timestamp"))
    ELSE ElemErr(ErrExpectedType(v))

Timestamp_to_json(self) == Some(JStr(self.v))

f64_parse_from_json(value) ==
    LET v == IF value = None THEN JNull ELSE value[1] IN
    IF v.t = "number"
    THEN ElemOk([ty |-> "f64", v |-> "1.0"])
    ELSE ElemErr(ErrExpectedType(v))

f64_to_json(self) == Some(JNum(self.v))

T_parse_from_json(ty, value) ==
    IF ty = "Timestamp" THEN Timestamp_parse_from_json(value)
    ELSE f64_parse_from_json(value)

T_to_json(ty, self) ==
    IF ty = "Timestamp" THEN Timestamp_to_json(self) ELSE f64_to_json(self)

\* ------------------------------------------------------------------------
\* Array2<T>: ParseFromJSON
\* ------------------------------------------------------------------------
ArrOk(shape, data, calls) ==
    [kind |-> "Ok", shape |-> shape, data |-> data, err |-> <<>>, calls |-> calls]
ArrErr(e, calls) ==
    [kind |-> "Err", shape |-> <<0, 0>>, data |-> <<>>, err |-> <<e>>, calls |-> calls]
ArrPanic(calls) ==
    [kind |-> "Panic", shape |-> <<0, 0>>, data |-> <<>>, err |-> <<>>, calls |-> calls]

\* variants of the validation loop that forget one of its two tests
ValidateRows_arrayOnly(rows, n_cols) ==
    \A i \in 1..Len(rows) : rows[i].t = "array"

ValidateRows_lenOnly(rows, n_cols) ==
    \A i \in 1..Len(rows) : Len(rows[i].a) = n_cols

\* the loop "Validate all rows have same length"
ValidateRows(rows, n_cols) ==
    \A i \in 1..Len(rows) : rows[i].t = "array" /\ Len(rows[i].a) = n_cols

\* variant: data.insert(0, value) instead of data.push(value)
RECURSIVE ParseCols_front(_, _, _)
ParseCols_front(cols, ty, acc) ==
    IF cols = <<>> THEN acc
    ELSE LET r == T_parse_from_json(ty, Some(Head(cols)))
             acc1 == [acc EXCEPT !.calls = Append(@, Head(cols))]
         IN IF r.kind = "Ok"
            THEN ParseCols_front(Tail(cols), ty, [acc1 EXCEPT !.data = <<r.val[1]>> \o @])
            ELSE [acc1 EXCEPT !.status = "err", !.err = <<ErrPropagate(r.err[1])>>]

\* variant: the error is remembered but the remaining columns are still parsed
RECURSIVE ParseCols_noShortCircuit(_, _, _)
ParseCols_noShortCircuit(cols, ty, acc) ==
    IF cols = <<>> THEN acc
    ELSE LET r == T_parse_from_json(ty, Some(Head(cols)))
             acc1 == [acc EXCEPT !.calls = Append(@, Head(cols))]
         IN IF r.kind = "Ok"
            THEN ParseCols_noShortCircuit(Tail(cols), ty,
                                          [acc1 EXCEPT !.data = Append(@, r.val[1])])
            ELSE ParseCols_noShortCircuit(Tail(cols), ty,
                    [acc1 EXCEPT !.status = "err", !.err = <<ErrPropagate(r.err[1])>>])

\* the inner loop "for col in cols": acc is [status, data, err, calls]
RECURSIVE ParseCols(_, _, _)
ParseCols(cols, ty, acc) ==
    IF cols = <<>> THEN acc
    ELSE LET r == T_parse_from_json(ty, Some(Head(cols)))
             acc1 == [acc EXCEPT !.calls = Append(@, Head(cols))]
         IN IF r.kind = "Ok"
            THEN ParseCols(Tail(cols), ty, [acc1 EXCEPT !.data = Append(@, r.val[1])])
            ELSE [acc1 EXCEPT !.status = "err", !.err = <<ErrPropagate(r.err[1])>>]

\* the outer loop "for row in rows"
RECURSIVE ParseRows(_, _, _)
ParseRows(rows, ty, acc) ==
    IF rows = <<>> THEN acc
    ELSE IF Head(rows).t # "array" THEN [acc EXCEPT !.status = "unreachable"]
    ELSE LET a == ParseCols(Head(rows).a, ty, acc)
         IN IF a.status # "run" THEN a ELSE ParseRows(Tail(rows), ty, a)

\* ndarray: Array2::from_shape_vec((n_rows, n_cols), data)
from_shape_vec(n_rows, n_cols, data) == Len(data) = n_rows * n_cols

Array2_parse_from_json(ty, value) ==
    LET v == IF value = None THEN JNull ELSE value[1] IN
    IF v.t # "array" THEN ArrErr(ErrExpectedType(v), <<>>)
    ELSE LET rows == v.a IN
    IF rows = <<>> THEN ArrOk(<<0, 0>>, <<>>, <<>>)
    ELSE IF rows[1].t # "array" THEN ArrErr(ErrCustom("Expected array of arrays"), <<>>)
    ELSE LET n_rows == Len(rows)
             n_cols == Len(rows[1].a)
         IN
    IF ~ValidateRows(rows, n_cols)
    THEN ArrErr(ErrCustom("All rows must have same length"), <<>>)
    ELSE LET acc == ParseRows(rows, ty,
                        [status |-> "run", data |-> <<>>, err |-> <<>>, calls |-> <<>>])
         IN CASE acc.status = "unreachable" -> ArrPanic(acc.calls)
              [] acc.status = "err" -> ArrErr(acc.err[1], acc.calls)
              [] OTHER ->
                    IF from_shape_vec(n_rows, n_cols, acc.data)
                    THEN ArrOk(<<n_rows, n_cols>>, acc.data, acc.calls)
                    ELSE ArrErr(ErrCustom("ShapeError"), acc.calls)

\* ------------------------------------------------------------------------
\* Array2<T>: ToJSON
\* ------------------------------------------------------------------------
\* self[[row_idx, col_idx]] of a standard-layout (row-major) array, 0-based
Index(self, row_idx, col_idx) == self.data[row_idx * self.shape[2] + col_idx + 1]

\* variant: the column loop stops one short (0..shape[1] - 1)
RECURSIVE PushCols_short(_, _, _, _)
PushCols_short(self, ty, row_idx, col_idx) ==
    IF col_idx >= self.shape[2] - 1 THEN <<>>
    ELSE T_to_json(ty, Index(self, row_idx, col_idx))
            \o PushCols_short(self, ty, row_idx, col_idx + 1)

\* row.push(value) for every column whose to_json is Some
RECURSIVE PushCols(_, _, _, _)
PushCols(self, ty, row_idx, col_idx) ==
    IF col_idx >= self.shape[2] THEN <<>>
    ELSE T_to_json(ty, Index(self, row_idx, col_idx))
            \o PushCols(self, ty, row_idx, col_idx + 1)

Array2_to_json(ty, self) ==
    Some(JArr([r \in 1..self.shape[1] |-> JArr(PushCols(self, ty, r - 1, 0))]))

\* ------------------------------------------------------------------------
\* SpecArray: a value is parsed, and a parsed array is serialized
\* ------------------------------------------------------------------------
Elems == {Int1, StrZ, StrOff}
Rows == {Int1} \cup {JArr(c) : c \in SeqUpTo(Elems, MaxCols)}
Inputs == {None, Some(JNull), Some(Int1)} \cup {Some(JArr(r)) : r \in SeqUpTo(Rows, MaxRows)}

NoArrRes ==
    [kind |-> "None", shape |-> <<0, 0>>, data |-> <<>>, err |-> <<>>, calls |-> <<>>]

InitArrayVars ==
    /\ T \in ElemTypes
    /\ input \in Inputs
    /\ apc = "start"
    /\ ares = NoArrRes
    /\ ajson = None

IdleArrayVars ==
    /\ T = "f64"
    /\ input = None
    /\ apc = "idle"
    /\ ares = NoArrRes
    /\ ajson = None

Parse ==
    /\ apc = "start"
    /\ ares' = Array2_parse_from_json(T, input)
    /\ apc' = "parsed"
    /\ UNCHANGED <<T, input, ajson, qvars, rvars>>

Serialize ==
    /\ apc = "parsed"
    /\ ares.kind = "Ok"
    /\ ajson' = Array2_to_json(T, ares)
    /\ apc' = "serialized"
    /\ UNCHANGED <<T, input, ares, qvars, rvars>>

\* ------------------------------------------------------------------------
\* Strings of the query side are sequences of characters
\* ------------------------------------------------------------------------
IsWhitespace(c) == c \in {" ", "\t"}

\* u8::to_ascii_lowercase, per character: only A-Z are folded
to_ascii_lowercase(c) ==
    CASE c = "F" -> "f"
      [] c = "O" -> "o"
      [] OTHER -> c

\* str::eq_ignore_ascii_case
eq_ignore_ascii_case(a, b) ==
    /\ Len(a) = Len(b)
    /\ \A i \in 1..Len(a) : to_ascii_lowercase(a[i]) = to_ascii_lowercase(b[i])

\* UrlQuery::get_all_by(pred): the values of the matching keys, in order
\* (the predicate is a function from the keys of q to BOOLEAN)
get_all_by(q, pred) ==
    LET hit(kv) == pred[kv[1]]
        sel == SelectSeq(q, hit)
    IN [i \in 1..Len(sel) |-> sel[i][2]]

KeysOf(q) == {q[i][1] : i \in 1..Len(q)}

\* UrlQuery::get_all(name)
get_all(q, name) == get_all_by(q, [k \in KeysOf(q) |-> k = name])

\* str::split(',')
RECURSIVE SplitAcc(_, _)
SplitAcc(s, cur) ==
    IF s = <<>> THEN <<cur>>
    ELSE IF Head(s) = "," THEN <<cur>> \o SplitAcc(Tail(s), <<>>)
    ELSE SplitAcc(Tail(s), Append(cur, Head(s)))

split(s) == SplitAcc(s, <<>>)

\* str::trim
RECURSIVE trim_start(_)
trim_start(s) ==
    IF s # <<>> /\ IsWhitespace(Head(s)) THEN trim_start(Tail(s)) ELSE s

RECURSIVE trim_end(_)
trim_end(s) ==
    IF s # <<>> /\ IsWhitespace(s[Len(s)]) THEN trim_end(SubSeq(s, 1, Len(s) - 1)) ELSE s

\* variant: only the leading whitespace is removed
trim_leading(s) == trim_start(s)

trim(s) == trim_end(trim_start(s))

\* values.next().unwrap().split(',').map(|v| v.trim())
SplitFirst(first) == [i \in 1..Len(split(first)) |-> trim(split(first)[i])]

\* ------------------------------------------------------------------------
\* Query<T>::from_request
\* ------------------------------------------------------------------------
DefaultOutput == [from |-> "default", of |-> <<>>]
ParsedValue(values) == [from |-> "parse", of |-> values]

QRes(kind, value, passed, defaultCalls, values, errName) ==
    [kind |-> kind, value |-> value, passed |-> passed,
     defaultCalls |-> defaultCalls, values |-> values, errName |-> errName]

\* variant: ignore_case is not consulted
MatchedValues_exact(q, o) == get_all(q, o.name)

\* the iterator `values` of the matched occurrences
MatchedValues(q, o) ==
    IF ~o.ignore_case
    THEN get_all(q, o.name)
    ELSE get_all_by(q, [n \in KeysOf(q) |-> eq_ignore_ascii_case(o.name, n)])

\* variant: a configured producer always wins
TakesDefault_always(o, values) == o.default_value # None

\* the default branch is taken: a producer is configured and peek() is None
TakesDefault(o, values) == o.default_value # None /\ values = <<>>

\* T::parse_from_parameters(values).map(Self).map_err(ParseParamError{..}):
\* the generic T accepts or rejects the sequence
ParseParameters(o, values, passed, accepts) ==
    IF accepts
    THEN QRes("Ok", Some(ParsedValue(passed)), Some(passed), 0, values, None)
    ELSE QRes("Err", None, Some(passed), 0, values, Some(o.name))

from_request(q, o, accepts) ==
    LET values == MatchedValues(q, o) IN
    IF TakesDefault(o, values)
    THEN QRes("Ok", Some(DefaultOutput), None, 1, values, None)
    ELSE IF o.explode
    THEN ParseParameters(o, values, values, accepts)
    ELSE IF values = <<>>
         THEN QRes("Panic", None, None, 0, values, None)      \* None.unwrap()
         ELSE ParseParameters(o, values, SplitFirst(Head(values)), accepts)

\* ------------------------------------------------------------------------
\* SpecQuery: one extraction against a request's query multimap
\* ------------------------------------------------------------------------
Str12 == <<"1", ",", "2">>
Str34 == <<"3", ",", "4">>
StrPadded == <<" ", "1", " ", ",", "\t", "2", " ">>
StrInner == <<"1", " ", "2">>
StrEmpty == <<>>
StrComma == <<",">>
ParamValues == {Str12, Str34, StrPadded, StrInner, StrEmpty, StrComma}

KeyFe == <<"F", "é">>
Keyfe == <<"f", "é">>
KeyFE == <<"F", "É">>
Keys == {KeyFe, Keyfe, KeyFE}
Names == {KeyFe}

Options ==
    [name : Names, ignore_case : BOOLEAN, explode : BOOLEAN,
     default_value : {None, Some("producer")}]

NoOpts == [name |-> KeyFe, ignore_case |-> FALSE, explode |-> FALSE, default_value |-> None]
NoQRes == QRes("None", None, None, 0, <<>>, None)

InitQueryVars ==
    /\ url_query \in SeqUpTo(Keys \X ParamValues, MaxOcc)
    /\ qpc = "start"
    /\ opts = NoOpts
    /\ qres = NoQRes

IdleQueryVars ==
    /\ url_query = <<>>
    /\ qpc = "idle"
    /\ opts = NoOpts
    /\ qres = NoQRes

FromRequest ==
    /\ qpc = "start"
    /\ \E o \in Options, accepts \in BOOLEAN :
        /\ opts' = o
        /\ qres' = from_request(url_query, o, accepts)
    /\ qpc' = "done"
    /\ UNCHANGED <<url_query, avars, rvars>>

\* ------------------------------------------------------------------------
\* Registration
\* ------------------------------------------------------------------------
\* a bindable type: Array2 nested `depth` times around Timestamp, possibly
\* wrapped in the Query extractor
BindableTypes == [query : BOOLEAN, depth : 0..MaxDepth]

\* Timestamp::name / Array2<T>::name
RECURSIVE TypeName(_)
TypeName(depth) ==
    IF depth = 0 THEN "string_date-time" ELSE "ndarray2_" \o TypeName(depth - 1)

SchemaNames == {TypeName(d) : d \in 0..MaxDepth}

\* Registry: insert the schema under `name` unless it is present
create_schema(reg, name) ==
    IF reg[name] > 0 THEN reg ELSE [reg EXCEPT ![name] = @ + 1]

\* Type::register of a leaf type
Timestamp_register(reg) == create_schema(reg, TypeName(0))

RECURSIVE Type_register(_, _)

\* variant: the composite also stores an entry under its own name, unguarded
Array2_register_own(depth, reg) ==
    [Type_register(depth - 1, reg) EXCEPT ![TypeName(depth)] = @ + 1]

\* Array2<T>::register: T::register(registry)
Array2_register(depth, reg) == Type_register(depth - 1, reg)

Type_register(depth, reg) ==
    IF depth = 0 THEN Timestamp_register(reg) ELSE Array2_register(depth, reg)

\* Query<T>::register: T::register(registry)
Query_register(depth, reg) == Type_register(depth, reg)

EmptyRegistry == [n \in SchemaNames |-> 0]

InitRegistryVars ==
    /\ registry = EmptyRegistry
    /\ regCalls = [b \in BindableTypes |-> 0]

Register ==
    \E b \in BindableTypes :
        /\ regCalls[b] < MaxCalls
        /\ registry' = IF b.query THEN Query_register(b.depth, registry)
                       ELSE Type_register(b.depth, registry)
        /\ regCalls' = [regCalls EXCEPT ![b] = @ + 1]
        /\ UNCHANGED <<avars, qvars>>

\* ------------------------------------------------------------------------
\* Specifications
\* ------------------------------------------------------------------------
InitArray == InitArrayVars /\ IdleQueryVars /\ InitRegistryVars
NextArray == Parse \/ Serialize
SpecArray == InitArray /\ [][NextArray]_vars

InitQuery == IdleArrayVars /\ InitQueryVars /\ InitRegistryVars
NextQuery == FromRequest
SpecQuery == InitQuery /\ [][NextQuery]_vars

InitRegistry == IdleArrayVars /\ IdleQueryVars /\ InitRegistryVars
NextRegistry == Register
SpecRegistry == InitRegistry /\ [][NextRegistry]_vars

\* ========================================================================
\* Properties of the Array2<T> adapter (SpecArray)
\* ========================================================================
\* the input is Some(array) and v is that array
InputIsArray == input # None /\ input[1].t = "array"
InRows == input[1].a
NRows == Len(InRows)
NCols == Len(InRows[1].a)

\* every row is an array as long as the first one
Rectangular ==
    /\ InputIsArray
    /\ \A i \in 1..NRows : InRows[i].t = "array" /\ Len(InRows[i].a) = Len(InRows[1].a)

\* the element type parses e / parses e and serializes the result back to e
ElemParses(e) == T_parse_from_json(T, Some(e)).kind = "Ok"
ElemRoundTrips(e) ==
    /\ ElemParses(e)
    /\ T_to_json(T, T_parse_from_json(T, Some(e)).val[1]) = Some(e)

\* the k-th element (1-based) of a rectangular input in row-major order
FlatAt(k) == InRows[((k - 1) \div NCols) + 1].a[((k - 1) % NCols) + 1]
FlatLen == NRows * NCols
Failing == {k \in 1..FlatLen : ~ElemParses(FlatAt(k))}
FirstFailing == CHOOSE k \in Failing : \A l \in Failing : k <= l

C1_Case ==
    /\ Rectangular
    /\ \A i \in 1..NRows : \A j \in 1..Len(InRows[i].a) : ElemRoundTrips(InRows[i].a[j])

\* C1: a rectangular array (the empty array and empty rows included) whose
\* elements round-trip under the element type parses, and serializing the
\* result gives the array back.
C1_RoundTrip ==
    (apc # "start" /\ C1_Case) =>
        /\ ares.kind = "Ok"
        /\ apc = "serialized" => ajson = input

C1_Witness ==
    /\ apc = "serialized"
    /\ C1_Case
    /\ NRows = 2
    /\ NCols = 2

C5_Case ==
    /\ InputIsArray
    /\ InRows # <<>>
    /\ \E i \in 1..NRows :
          \/ InRows[i].t # "array"
          \/ Len(InRows[i].a) # Len(InRows[1].a)

\* C5: a non-empty outer array with a non-array row or a row whose length
\* differs from the first row's is rejected with a Custom error before any
\* element is parsed.
C5_StructuralFirst ==
    (apc # "start" /\ C5_Case) =>
        /\ ares.kind = "Err"
        /\ ares.err[1].ctor = "Custom"
        /\ ares.calls = <<>>

\* a ragged input whose very first element would fail to parse
C5_Witness ==
    /\ apc = "parsed"
    /\ C5_Case
    /\ InRows[1].t = "array"
    /\ InRows[1].a # <<>>
    /\ ~ElemParses(InRows[1].a[1])
    /\ ares.kind = "Err"

C7_Case ==
    /\ Rectangular
    /\ InRows # <<>>
    /\ \A k \in 1..FlatLen : ElemParses(FlatAt(k))

\* C7: the empty outer array parses to a 0x0 array; a rectangular n x m input
\* whose elements all parse gives shape (n, m) with element [i, j] the parse of
\* the j-th value of the i-th row.
C7_ShapeAndContent ==
    apc # "start" =>
        /\ (InputIsArray /\ InRows = <<>>) =>
              ares.kind = "Ok" /\ ares.shape = <<0, 0>> /\ ares.data = <<>>
        /\ C7_Case =>
              /\ ares.kind = "Ok"
              /\ ares.shape = <<NRows, NCols>>
              /\ Len(ares.data) = NRows * NCols
              /\ \A i \in 0..(NRows - 1) : \A j \in 0..(NCols - 1) :
                    Index(ares, i, j) =
                        T_parse_from_json(T, Some(InRows[i + 1].a[j + 1])).val[1]

\* two rows of two columns holding different values
C7_Witness ==
    /\ apc = "parsed"
    /\ C7_Case
    /\ NRows = 2
    /\ NCols = 2
    /\ Index(ares, 0, 0) # Index(ares, 0, 1)

C9_Case ==
    /\ Rectangular
    /\ InRows # <<>>
    /\ Failing # {}

\* C9: in a rectangular input with a failing element the result is the
\* propagated error of the first failing element in row-major order, the
\* elements after it are not parsed and no array is returned.
C9_ShortCircuit ==
    (apc # "start" /\ C9_Case) =>
        /\ ares.kind = "Err"
        /\ ares.err[1] = ErrPropagate(T_parse_from_json(T, Some(FlatAt(FirstFailing))).err[1])
        /\ ares.calls = [k \in 1..FirstFailing |-> FlatAt(k)]
        /\ ares.data = <<>>

\* the first failure is neither the first nor the last element
C9_Witness ==
    /\ apc = "parsed"
    /\ C9_Case
    /\ FirstFailing > 1
    /\ FirstFailing < FlatLen
    /\ ares.kind = "Err"

\* C10: the unreachable!() branch of the parsing loop is never executed and
\* from_shape_vec never fails on the collected data.
C10_NoPanicNoShapeError ==
    /\ ares.kind # "Panic"
    /\ ares.kind = "Err" => ares.err[1] # ErrCustom("ShapeError")
    /\ ares.kind = "Ok" => Len(ares.data) = ares.shape[1] * ares.shape[2]

\* the loop ran over a full input and the array was built
C10_Witness ==
    /\ apc = "parsed"
    /\ ares.kind = "Ok"
    /\ ares.shape = <<MaxRows, MaxCols>>
    /\ Len(ares.calls) = MaxRows * MaxCols

\* ========================================================================
\* Properties of Query<T>::from_request (SpecQuery)
\* ========================================================================
AsciiCasePairs == {{"F", "f"}, {"O", "o"}}
LetterCasePairs == AsciiCasePairs \cup {{"É", "é"}}

\* a and b are the same up to the case pairs given
SameUpTo(pairs, a, b) ==
    /\ Len(a) = Len(b)
    /\ \A i \in 1..Len(a) : a[i] = b[i] \/ {a[i], b[i]} \in pairs

\* the positions of the multimap whose key is the parameter's
HitIdx(pairs) ==
    {i \in 1..Len(url_query) :
        IF opts.ignore_case
        THEN SameUpTo(pairs, opts.name, url_query[i][1])
        ELSE url_query[i][1] = opts.name}

\* seq holds the values at the positions idx, one each, in their order
IsOccurrences(seq, idx) ==
    /\ Len(seq) = Cardinality(idx)
    /\ \A i \in idx : seq[Cardinality({j \in idx : j <= i})] = url_query[i][2]

\* t is seg without its leading and trailing whitespace
IsTrimOf(t, seg) ==
    /\ \E a, b \in 0..Len(seg) :
          /\ a + b <= Len(seg)
          /\ t = SubSeq(seg, a + 1, Len(seg) - b)
          /\ \A i \in 1..a : IsWhitespace(seg[i])
          /\ \A i \in (Len(seg) - b + 1)..Len(seg) : IsWhitespace(seg[i])
    /\ t = <<>> \/ (~IsWhitespace(t[1]) /\ ~IsWhitespace(t[Len(t)]))

\* pieces are the comma-separated segments of str, each trimmed
IsPiecesOf(pieces, str) ==
    LET commas == {i \in 1..Len(str) : str[i] = ","}
        n == Cardinality(commas)
        cut(k) == IF k = 0 THEN 0
                  ELSE IF k = n + 1 THEN Len(str) + 1
                  ELSE CHOOSE i \in commas : Cardinality({j \in commas : j <= i}) = k
    IN /\ Len(pieces) = n + 1
       /\ \A k \in 1..(n + 1) :
             IsTrimOf(pieces[k], SubSeq(str, cut(k - 1) + 1, cut(k) - 1))

FirstHit == CHOOSE i \in HitIdx(AsciiCasePairs) : \A j \in HitIdx(AsciiCasePairs) : i <= j

C2_Case == qpc = "done" /\ HitIdx(AsciiCasePairs) # {}

\* C2: with at least one matched occurrence, explode hands the whole sequence
\* of matched occurrences to parse_from_parameters, in order and unsplit;
\* without explode it hands the trimmed comma-separated pieces of the first
\* occurrence, whatever the later occurrences are.
C2_Explode ==
    C2_Case =>
        /\ qres.passed # None
        /\ opts.explode => IsOccurrences(qres.passed[1], HitIdx(AsciiCasePairs))
        /\ ~opts.explode => IsPiecesOf(qres.passed[1], url_query[FirstHit][2])

\* two occurrences, the first padded with whitespace, combined decoding
C2_Witness ==
    /\ C2_Case
    /\ ~opts.explode
    /\ Cardinality(HitIdx(AsciiCasePairs)) = 2
    /\ url_query[FirstHit][2] = StrPadded
    /\ qres.passed = Some(<<(<<"1">>), (<<"2">>)>>)

C3_Case == qpc = "done" /\ HitIdx(AsciiCasePairs) = {} /\ opts.default_value = None

\* C3: with no matching occurrence and no default producer the extraction
\* returns an error, with explode and without.
C3_MissingIsError == C3_Case => qres.kind = "Err"

\* C4: the default producer runs exactly when it is configured and nothing
\* matches; then its output is the value and nothing is parsed, whatever
\* explode is; with a match the value comes from parsing.
C4_DefaultFallback ==
    qpc = "done" =>
        /\ qres.defaultCalls = 1 <=>
              (opts.default_value # None /\ HitIdx(AsciiCasePairs) = {})
        /\ qres.defaultCalls \in {0, 1}
        /\ qres.defaultCalls = 1 =>
              /\ qres.kind = "Ok"
              /\ qres.value = Some(DefaultOutput)
              /\ qres.passed = None
        /\ HitIdx(AsciiCasePairs) # {} =>
              /\ qres.passed # None
              /\ qres.kind = "Ok" => qres.value = Some(ParsedValue(qres.passed[1]))
              /\ qres.kind \in {"Ok", "Err"}

\* the producer ran for a combined (non-explode) parameter
C4_Witness ==
    /\ qpc = "done"
    /\ qres.defaultCalls = 1
    /\ ~opts.explode
    /\ url_query # <<>>

\* C8 as stated: with ignore_case the matched occurrences are the values of
\* the keys equal to the name up to letter case (looked at in the extractions
\* that return).
C8_LetterCase ==
    (qpc = "done" /\ qres.kind # "Panic") =>
        IsOccurrences(qres.values, HitIdx(LetterCasePairs))

\* C8, amended: with ignore_case the matched occurrences are the values, in
\* order, of the keys equal to the name up to the case of ASCII letters; with
\* ignore_case unset, of the keys equal to the name.
C8_AsciiCase == qpc = "done" => IsOccurrences(qres.values, HitIdx(AsciiCasePairs))

\* a key that differs from the name in ASCII case only is found
C8_Witness ==
    /\ qpc = "done"
    /\ opts.ignore_case
    /\ opts.name = KeyFe
    /\ Len(url_query) = 2
    /\ url_query[1][1] = KeyFE
    /\ url_query[2][1] = Keyfe
    /\ qres.values = <<url_query[2][2]>>

\* ========================================================================
\* Properties of registration (SpecRegistry)
\* ========================================================================
Registered == {b \in BindableTypes : regCalls[b] > 0}

====
